---- MODULE Spec2Model ----
(***************************************************************************)
(* A model of dill's trace logging (src/dill/logging.py): the TraceAdapter *)
(* that keeps a per-pickler identity stack and byte-offset stack, the      *)
(* TraceFormatter that draws the tree prefix, the trace() level toggle and *)
(* the TraceManager context manager.                                       *)
(*                                                                         *)
(* Python's None is modelled as the empty tuple and a present value x as   *)
(* the 1-tuple <<x>>.  A message is a tuple of characters, so that         *)
(* msg.startswith('#') is computed and not assumed.                        *)
(***************************************************************************)
EXTENDS Integers, Sequences, FiniteSets, TLC

\* ------------------------------------------------------------------ bounds
NumIds == 3
MaxDepth == 3
MaxOffset == 1
MaxScopes == 2
MaxFmtDepth == 5
NumIdsTwo == 2

Ids == 1..NumIds
Offsets == 0..MaxOffset
Sessions == {"p1", "p2"}

\* The identities of the objects that two picklers at work at once pickle.
IdsTwo == 1..NumIdsTwo

None == <<>>
Some(x) == <<x>>

\* ------------------------------------------------- logging levels (line 61, 69)
CRITICAL == 50
ERROR == 40
WARNING == 30
INFO == 20
DEBUG == 10
NOTSET == 0
TRACE == (INFO + DEBUG) \div 2

\* _nameOrBoolToLevel: logging._nameToLevel plus 'TRACE', False and True.
\* The booleans are written "True" and "False".
nameOrBoolToLevel ==
    [a \in {"CRITICAL", "FATAL", "ERROR", "WARN", "WARNING", "INFO", "DEBUG",
            "NOTSET", "TRACE", "False", "True"} |->
        CASE a \in {"CRITICAL", "FATAL"} -> CRITICAL
          [] a = "ERROR" -> ERROR
          [] a \in {"WARN", "WARNING", "False"} -> WARNING
          [] a = "INFO" -> INFO
          [] a = "DEBUG" -> DEBUG
          [] a = "NOTSET" -> NOTSET
          [] a \in {"TRACE", "True"} -> TRACE]

\* ------------------------------------------------------------------ state
VARIABLES
    level,          \* logger.level, the dill logger's own level
    rootLevel,      \* the level of the parent (root) logger
    handlers,       \* logger.handlers, a list without duplicates
    scopes,         \* the TraceManager objects entered and not yet exited
    closed,         \* the file objects that have been closed
    is_dill,        \* per pickler: dill._dill.is_dill(pickler, child=False)
    sink,           \* per pickler: how its byte-offset query behaves
    attr,           \* per pickler: "absent", "None" or "list" (_trace_stack)
    trace_stack,    \* per pickler: _trace_stack when it is a list
    size_stack,     \* per pickler: _size_stack
    id_to_name,     \* per pickler: the keys of _id_to_name
    open_log,       \* history: per open object, what its OPEN call reported
    degraded,       \* history: per pickler, an offset query gave nothing
    last,           \* history: the last call, what it raised and logged
    toggled,        \* history: what set the logger's level last
    fmt             \* the last record formatted and the fields it was given

loggerVars == <<level, rootLevel, handlers, toggled>>
mgrVars == <<scopes, closed>>
sessVars == <<is_dill, sink, attr, trace_stack, size_stack, id_to_name, open_log,
              degraded>>
vars == <<level, rootLevel, handlers, scopes, closed, is_dill, sink, attr,
          trace_stack, size_stack, id_to_name, open_log, degraded, last, toggled,
          fmt>>

\* ------------------------------------------------------------------ logger
\* Logger.getEffectiveLevel: the first level that is set, from the logger up.
EffectiveLevel(own, parent) == IF own # NOTSET THEN own ELSE parent
getEffectiveLevel == EffectiveLevel(level, rootLevel)

\* A threshold test that leaves out the level itself.
isEnabledAbove(lvl) == lvl > getEffectiveLevel

\* Logger.isEnabledFor as LoggerAdapter.isEnabledFor forwards to it.
isEnabledFor(lvl) == lvl >= getEffectiveLevel

\* Logger.addHandler / Logger.removeHandler on the handler list.
InList(h, hs) == \E k \in 1..Len(hs) : hs[k] = h
addHandler(hs, h) == IF InList(h, hs) THEN hs ELSE Append(hs, h)
removeHandler(hs, h) == SelectSeq(hs, LAMBDA x : x # h)

\* ------------------------------------------------------------------ messages
MsgOpen == <<"X", ":", " ", "%", "r">>
MsgClose == <<"#", " ", "X">>
Msgs == {MsgOpen, MsgClose}

\* str.startswith('#')
StartsWithHash(msg) == Len(msg) > 0 /\ msg[1] = "#"

\* The positional arguments of a trace call, as far as the code looks at
\* them: none, a last argument that is a str, or a last argument that is
\* the object with identity id.
ArgsNone == [kind |-> "empty", id |-> 0]
ArgsStr == [kind |-> "str", id |-> 0]
ArgsObj(i) == [kind |-> "obj", id |-> i]
ArgsSet == {ArgsNone, ArgsStr} \cup {ArgsObj(i) : i \in Ids}
ObjKw == {None} \cup {Some(i) : i \in Ids}

\* The (args, obj) pairs of the calls: no object at all, the object as the
\* last argument, the object as the keyword after a str argument.
CallInputs ==
    {<<ArgsNone, None>>, <<ArgsStr, None>>}
        \cup {<<ArgsObj(i), None>> : i \in Ids}
        \cup {<<ArgsStr, Some(i)>> : i \in Ids}

\* The name the registry holds for an identity.
VarName(i) == <<"v", i>>

\* What one byte-offset query (lines 185-193) can give on a pickler whose
\* stream is tellable, not tellable, or sometimes one and sometimes the other.
SinkKinds == {"tellable", "untellable", "flaky"}
Tells(kind) ==
    CASE kind = "tellable" -> {Some(o) : o \in Offsets}
      [] kind = "untellable" -> {None}
      [] OTHER -> {None} \cup {Some(o) : o \in Offsets}

Front(s) == SubSeq(s, 1, Len(s) - 1)
Last(s) == s[Len(s)]

\* What the last call was: the operation, the pickler, the message of a trace
\* call (for roll_back, the identity it was given; for the exit of a scope,
\* what had set the level last), the exception that left the call and the
\* record it logged.
NoCall == [op |-> "none", s |-> "p1", msg |-> <<>>, raised |-> "none", rec |-> None]
Call(op, s, msg, raised, rec) ==
    [op |-> op, s |-> s, msg |-> msg, raised |-> raised, rec |-> rec]

\* The record a logging call at level lvl hands to the logger; emitted says
\* whether the logger lets it through (Logger.isEnabledFor), to tells which
\* handlers get it.
Record(lvl, msg, depth, size, varname) ==
    [level |-> lvl, msg |-> msg, depth |-> depth, size |-> size,
     varname |-> varname, emitted |-> isEnabledFor(lvl),
     to |-> IF isEnabledFor(lvl) THEN handlers ELSE <<>>]

\* ------------------------------------------------------------------ TraceAdapter
\* A stack kept in one place for all picklers.
SetAttrShared(attrs, s, v) == [t \in Sessions |-> v]

\* pickler._trace_stack = [] and pickler._size_stack = [] (lines 162-163):
\* an attribute of the pickler that is given.
SetAttr(attrs, s, v) == [attrs EXCEPT ![s] = v]

\* TraceAdapter.trace_setup(pickler), called by Pickler.dump().
trace_setup(s) ==
    /\ IF ~is_dill[s]
       THEN UNCHANGED <<attr, trace_stack, size_stack, open_log, degraded>>
       ELSE IF isEnabledFor(TRACE)
       THEN /\ attr' = [attr EXCEPT ![s] = "list"]
            /\ trace_stack' = SetAttr(trace_stack, s, <<>>)
            /\ size_stack' = SetAttr(size_stack, s, <<>>)
            /\ open_log' = [open_log EXCEPT ![s] = <<>>]
            /\ degraded' = [degraded EXCEPT ![s] = FALSE]
       ELSE /\ attr' = [attr EXCEPT ![s] = "None"]
            /\ open_log' = [open_log EXCEPT ![s] = <<>>]
            /\ degraded' = [degraded EXCEPT ![s] = FALSE]
            /\ UNCHANGED <<trace_stack, size_stack>>
    /\ last' = Call("trace_setup", s, <<>>, "none", None)
    /\ UNCHANGED <<loggerVars, mgrVars, fmt, is_dill, sink, id_to_name>>

\* A usage check that forgets the case of a last argument that is a str.
MissingObjNoStr(args, obj) == obj = None /\ args.kind = "empty"

\* The usage check of an OPEN call (line 175).
MissingObj(args, obj) == obj = None /\ args.kind \in {"empty", "str"}

\* The object of an OPEN call: the 'obj' keyword, else the last argument.
TracedObj(args, obj) == IF obj # None THEN obj[1] ELSE args.id

\* The 'module > dict > variable' depth at which a name is looked up (line 197).
VarDepth == 3

\* list.append and list.pop on a non-empty list: what is left, what is popped.
Push(stack, x) == Append(stack, x)
PopRest(stack) == Front(stack)
PopValue(stack) == Last(stack)

\* A depth that counts the enclosing objects only.
RecDepthZeroBased(ts) == IF ts = <<>> THEN 0 ELSE Len(ts) - 1

\* extra['depth'] (line 203), from the identity stack at that point.
RecDepth(ts) == Len(ts)

\* A size taken against the offset of the outermost open object.
SizeDeltaFromBottom(now, ss) == now - Head(ss)

\* size -= pickler._size_stack.pop() (line 201).
SizeDelta(now, ss) == now - PopValue(ss)

\* Whether the OPEN call that made the offset stack ss looks up a name for
\* object o in the registry reg (lines 197-199; KeyError is suppressed).
LooksUpName(ss, o, reg) == Len(ss) = VarDepth /\ o \in reg

\* The traced part of TraceAdapter.trace (lines 172-207), for a pickler whose
\* _trace_stack is a list.  tell is what the byte-offset query gives on
\* this call.
trace_on(s, msg, args, obj, tell) ==
    LET pushed_obj == StartsWithHash(msg)
        theObj == TracedObj(args, obj)
        ts1 == IF pushed_obj THEN trace_stack[s] ELSE Push(trace_stack[s], theObj)
        ss0 == size_stack[s]
        pushSize == tell # None /\ ~pushed_obj
        popSize == tell # None /\ pushed_obj
        ss1 == IF pushSize THEN Push(ss0, tell[1])
               ELSE IF popSize /\ ss0 # <<>> THEN PopRest(ss0) ELSE ss0
        named == pushSize /\ LooksUpName(ss1, theObj, id_to_name[s])
        size == IF popSize /\ ss0 # <<>> THEN Some(SizeDelta(tell[1], ss0)) ELSE None
        varname == IF named THEN Some(VarName(theObj)) ELSE None
        rec == Record(INFO, msg, Some(RecDepth(ts1)), size, varname)
        ol1 == IF pushed_obj THEN open_log[s]
               ELSE Append(open_log[s], [obj |-> theObj, depth |-> rec.depth, off |-> tell])
    IN  IF ~pushed_obj /\ MissingObj(args, obj)
        THEN \* raise TypeError before anything is touched
             /\ last' = Call("trace", s, msg, "TypeError", None)
             /\ UNCHANGED <<trace_stack, size_stack, id_to_name, open_log, degraded>>
        ELSE IF popSize /\ ss0 = <<>>
        THEN \* _size_stack.pop() on an empty list: IndexError, nothing logged
             /\ last' = Call("trace", s, msg, "IndexError", None)
             /\ UNCHANGED <<trace_stack, size_stack, id_to_name, open_log, degraded>>
        ELSE /\ size_stack' = [size_stack EXCEPT ![s] = ss1]
             /\ degraded' = [degraded EXCEPT ![s] = @ \/ tell = None]
             /\ id_to_name' = [id_to_name EXCEPT ![s] =
                                  IF named THEN @ \ {theObj} ELSE @]
             /\ IF pushed_obj /\ ts1 = <<>>
                THEN \* the record is logged, then _trace_stack.pop() raises
                     /\ last' = Call("trace", s, msg, "IndexError", Some(rec))
                     /\ UNCHANGED <<trace_stack, open_log>>
                ELSE /\ last' = Call("trace", s, msg, "none", Some(rec))
                     /\ trace_stack' = [trace_stack EXCEPT ![s] =
                                           IF pushed_obj THEN PopRest(ts1) ELSE ts1]
                     /\ open_log' = [open_log EXCEPT ![s] =
                                        IF pushed_obj THEN Front(ol1) ELSE ol1]

\* logger.info(msg, *args, **kwargs) (line 168): a record without extras.
PlainRecord(msg) == Record(INFO, msg, None, None, None)

\* A trace call that returns without logging, as on a pickler in null mode.
forward_silent(s, msg) ==
    /\ last' = Call("trace", s, msg, "none", None)
    /\ UNCHANGED <<trace_stack, size_stack, id_to_name, open_log, degraded>>

\* A pickler without _trace_stack handled like one in null mode.
forward_as_null(s, msg) == forward_silent(s, msg)

\* The branch of trace for a pickler without _trace_stack (lines 167-169).
forward_plain(s, msg) ==
    /\ last' = Call("trace", s, msg, "none", Some(PlainRecord(msg)))
    /\ UNCHANGED <<trace_stack, size_stack, id_to_name, open_log, degraded>>

\* TraceAdapter.trace(pickler, msg, *args, obj=None, **kwargs).
trace(s, msg, args, obj, tell) ==
    /\ IF attr[s] = "absent"
       THEN forward_plain(s, msg)
       ELSE IF attr[s] = "None"
       THEN forward_silent(s, msg)
       ELSE trace_on(s, msg, args, obj, tell)
    /\ UNCHANGED <<loggerVars, mgrVars, fmt, is_dill, sink, attr>>

\* A test that does not compare the identity.
IsTopAny(stack, o) == stack # <<>>

\* The test of roll_back (line 209): a non-empty list whose top is id(obj).
IsTop(stack, o) == stack # <<>> /\ o = Last(stack)

\* TraceAdapter.roll_back(pickler, obj).
roll_back(s, o) ==
    /\ IF attr[s] = "absent"
       THEN \* pickler._trace_stack does not exist
            /\ last' = Call("roll_back", s, <<o>>, "AttributeError", None)
            /\ UNCHANGED <<trace_stack, size_stack, open_log>>
       ELSE IF attr[s] = "list" /\ IsTop(trace_stack[s], o)
       THEN /\ trace_stack' = [trace_stack EXCEPT ![s] = PopRest(@)]
            /\ open_log' = [open_log EXCEPT ![s] = Front(@)]
            /\ IF size_stack[s] = <<>>
               THEN \* _size_stack.pop() on an empty list
                    /\ last' = Call("roll_back", s, <<o>>, "IndexError", None)
                    /\ UNCHANGED size_stack
               ELSE /\ last' = Call("roll_back", s, <<o>>, "none", None)
                    /\ size_stack' = [size_stack EXCEPT ![s] = PopRest(@)]
       ELSE /\ last' = Call("roll_back", s, <<o>>, "none", None)
            /\ UNCHANGED <<trace_stack, size_stack, open_log>>
    /\ UNCHANGED <<loggerVars, mgrVars, fmt, is_dill, sink, attr, id_to_name,
                   degraded>>

\* ------------------------------------------------------------------ trace()
\* trace(arg) with a boolean or a level name: logger.setLevel(level).
ToggleArgs == {"True", "False", "TRACE", "INFO", "DEBUG", "WARNING", "ERROR",
               "CRITICAL", "NOTSET"}

toggle(arg) ==
    /\ arg \in DOMAIN nameOrBoolToLevel
    /\ level' = nameOrBoolToLevel[arg]
    /\ toggled' = arg
    /\ last' = Call("toggle", "p1", <<>>, "none", None)
    /\ UNCHANGED <<rootLevel, handlers, mgrVars, sessVars, fmt>>

\* A handler is named by the kind of its stream and the nesting depth of the
\* TraceManager that made it; stderr_handler is made at import (line 256).
StderrHandler == <<"stderr", 0>>

\* adapter.info(msg), the log function a TraceManager yields (line 328).
log_info(msg) ==
    /\ last' = Call("log", "p1", msg, "none", Some(PlainRecord(msg)))
    /\ UNCHANGED <<loggerVars, mgrVars, sessVars, fmt>>

\* The levels the application gives the root logger, the parent of 'dill'
\* (line 253), from which the dill logger inherits while its own is NOTSET.
RootLevels == {DEBUG, WARNING, ERROR}

\* logging.getLogger().setLevel(lvl), done by the application.
set_root_level(lvl) ==
    /\ rootLevel' = lvl
    /\ last' = Call("set_root_level", "p1", <<>>, "none", None)
    /\ UNCHANGED <<level, handlers, toggled, mgrVars, sessVars, fmt>>

\* ------------------------------------------------------------------ TraceManager
\* What trace() can be given to redirect to: nothing, a stream of the caller,
\* a path that can be opened, a path that cannot.
Targets == {"none", "stream", "path", "badpath"}

\* TraceManager.__init__ (lines 312-316).
Redirect(file) == file # "none"
FileIsStream(file) == file = "stream"

\* The handler __enter__ makes at nesting depth k (lines 320-323).
NewHandler(file, k) == IF FileIsStream(file) THEN <<"stream", k>> ELSE <<"file", k>>

\* The handler swap of __enter__ (lines 324-325).
SwapIn(hs, h) == addHandler(removeHandler(hs, StderrHandler), h)

\* An exit that detaches its handler and attaches nothing.
SwapOutNoStderr(hs, h) == removeHandler(hs, h)

\* The handler swap of __exit__ (lines 332-333).
SwapOut(hs, h) == addHandler(removeHandler(hs, h), StderrHandler)

\* An enter that detaches stderr_handler before it opens the file.
HandlersDetachedAtOpen(hs) == removeHandler(hs, StderrHandler)

\* The logger's handlers at the time FileHandler opens the file (line 323):
\* stderr_handler has been flushed only, lines 324-325 are still to come.
HandlersAtOpen(hs) == hs

\* TraceManager.__enter__ of trace(file) (lines 317-328).  FileHandler opens
\* the file when it is made, so a path that cannot be opened raises at line
\* 323, before the logger is touched.
enter(file) ==
    LET k == Len(scopes) + 1
        h == NewHandler(file, k)
        hs1 == IF Redirect(file) THEN SwapIn(handlers, h) ELSE handlers
    IN  /\ Len(scopes) < MaxScopes
        /\ IF file = "badpath"
           THEN /\ last' = Call("enter", "p1", <<>>, "OSError", None)
                /\ handlers' = HandlersAtOpen(handlers)
                /\ UNCHANGED <<level, rootLevel, toggled, mgrVars>>
           ELSE /\ handlers' = hs1
                /\ closed' = closed \ {h}
                /\ scopes' = Append(scopes,
                      [file |-> file, redirect |-> Redirect(file),
                       file_is_stream |-> FileIsStream(file), handler |-> h,
                       old_level |-> getEffectiveLevel,
                       \* history: the logger as it was before the entry
                       pre_level |-> level, pre_eff |-> getEffectiveLevel,
                       pre_handlers |-> handlers])
                /\ level' = TRACE
                /\ toggled' = "enter"
                /\ last' = Call("enter", "p1", <<>>, "none", None)
                /\ UNCHANGED rootLevel
        /\ UNCHANGED <<sessVars, fmt>>

\* An exit that closes whatever it was redirected to.
ClosesAnyTarget(self) == self.redirect

\* Whether __exit__ closes the handler of scope self (lines 331, 334-335).
ClosesFile(self) == self.redirect /\ ~self.file_is_stream

\* TraceManager.__exit__ (lines 329-335) of the innermost scope, after the
\* body finished (failing = FALSE) or raised (failing = TRUE).
exit(failing) ==
    /\ scopes # <<>>
    /\ LET self == Last(scopes) IN
        /\ level' = self.old_level
        /\ toggled' = "exit"
        /\ handlers' = IF self.redirect THEN SwapOut(handlers, self.handler)
                       ELSE handlers
        /\ closed' = IF ClosesFile(self)
                     THEN closed \cup {self.handler} ELSE closed
    /\ scopes' = Front(scopes)
    /\ last' = Call("exit", "p1", <<toggled>>,
                     IF failing THEN "BodyError" ELSE "none", None)
    /\ UNCHANGED <<rootLevel, sessVars, fmt>>

\* ------------------------------------------------------------------ TraceFormatter
NoFormat ==
    [record |-> None, encoding |-> None, is_utf8 |-> TRUE,
     prefix |-> <<>>, suffix |-> <<>>]

\* handler.stream.encoding: no such attribute, None, or a name; and what
\* locale.getpreferredencoding() gives.
StreamEncodings == {"absent", "None", "utf-8", "UTF8", "latin-1", "bogus"}
LocaleEncodings == {"UTF-8", "ANSI_X3.4-1968"}

\* codecs.lookup(encoding).name: the normalised name, None on LookupError.
CodecName(encoding) ==
    CASE encoding \in {"utf-8", "UTF8", "UTF-8"} -> Some("utf-8")
      [] encoding = "latin-1" -> Some("iso8859-1")
      [] encoding = "ANSI_X3.4-1968" -> Some("ascii")
      [] OTHER -> None

\* The encoding TraceFormatter.__init__ looks up (lines 222-227): the one
\* of the handler's stream, else the preferred one of the locale.
EncodingOf(stream_encoding, locale_encoding) ==
    IF stream_encoding \in {"absent", "None"} THEN locale_encoding
    ELSE stream_encoding

\* self.is_utf8 (lines 228-233).
IsUtf8(encoding) ==
    IF CodecName(encoding) = None THEN FALSE
    ELSE CodecName(encoding) = CodecName("utf-8")

\* The tree-drawing characters, by code point, and the characters ASCII_MAP
\* (line 77) gives for them.  A string is a tuple of characters.
Vert == "U+2502"
Tee == "U+251C"
Branch == "U+252C"
Corner == "U+2514"

\* The grave accent (U+0060), by name.
Grave == "U+0060"

\* A map that leaves the join character out.
Translate1NoTee(c) ==
    CASE c = Vert -> "|"
      [] c = Branch -> "+"
      [] c = Corner -> Grave
      [] OTHER -> c

\* str.translate(ASCII_MAP), one character.
Translate1(c) ==
    CASE c \in {Vert, Tee} -> "|"
      [] c = Branch -> "+"
      [] c = Corner -> Grave
      [] OTHER -> c

\* str.translate(ASCII_MAP)
Translate(str) == [k \in 1..Len(str) |-> Translate1(str[k])]

\* n * c: the string of n characters c, empty when n <= 0.
Times(n, c) == [k \in 1..n |-> c]

\* An OPEN prefix with one continuation too many.
OpenPrefixDeep(d) == IF d = 1 THEN <<Branch>> ELSE Times(d - 1, Vert) \o <<Tee, Branch>>

\* The prefix of an OPEN and of a CLOSE record of depth d > 0 (lines 238-242).
ClosePrefix(d) == Times(d - 1, Vert) \o <<Corner>>
OpenPrefix(d) == IF d = 1 THEN <<Branch>> ELSE Times(d - 2, Vert) \o <<Tee, Branch>>

\* getattr(record, 'depth', 0)
DepthOf(record) == IF record.depth = None THEN 0 ELSE record.depth[1]

\* fields['prefix'] (lines 235-245).
PrefixField(record, is_utf8) ==
    IF DepthOf(record) > 0
    THEN LET prefix == IF StartsWithHash(record.msg)
                       THEN ClosePrefix(DepthOf(record))
                       ELSE OpenPrefix(DepthOf(record))
         IN  (IF is_utf8 THEN prefix ELSE Translate(prefix) \o <<"-">>) \o <<" ">>
    ELSE <<>>

\* fields['suffix'] (lines 246-249): the name, else the size, else nothing;
\* the text made of the size is left to _format_bytes_size.
SuffixField(record) ==
    IF record.varname # None THEN <<"as", record.varname[1]>>
    ELSE IF record.size # None THEN <<"size", record.size[1]>>
    ELSE <<>>

\* The records a handler can be asked to format.
FmtRecords ==
    [level : {INFO}, msg : Msgs,
     depth : {None} \cup {Some(d) : d \in 0..MaxFmtDepth},
     size : {None, Some(MaxOffset)}, varname : {None, Some(VarName(1))},
     emitted : {TRUE}, to : {<<StderrHandler>>}]

\* TraceFormatter.format(record) by the formatter that was made for a
\* handler whose stream has encoding stream_encoding, under a locale whose
\* preferred encoding is locale_encoding.
format(record, stream_encoding, locale_encoding) ==
    LET encoding == EncodingOf(stream_encoding, locale_encoding)
        is_utf8 == IsUtf8(encoding)
    IN  /\ fmt' = [record |-> Some(record), encoding |-> CodecName(encoding),
                   is_utf8 |-> is_utf8,
                   prefix |-> PrefixField(record, is_utf8),
                   suffix |-> SuffixField(record)]
        /\ UNCHANGED <<loggerVars, mgrVars, sessVars, last>>

\* ------------------------------------------------------------------ specifications

InitLogger ==
    /\ level = NOTSET
    /\ rootLevel = WARNING
    /\ handlers = <<StderrHandler>>
    /\ scopes = <<>>
    /\ closed = {}
    /\ toggled = "import"
    /\ fmt = NoFormat

InitSessions(active, kinds) ==
    /\ is_dill \in [Sessions -> BOOLEAN]
    /\ \A s \in Sessions \ active : is_dill[s]
    /\ sink \in [Sessions -> kinds]
    /\ \A s \in Sessions \ active : sink[s] = CHOOSE k \in kinds : TRUE
    /\ attr = [s \in Sessions |-> "absent"]
    /\ trace_stack = [s \in Sessions |-> <<>>]
    /\ size_stack = [s \in Sessions |-> <<>>]
    /\ id_to_name \in [Sessions -> {{}, Ids}]
    /\ \A s \in Sessions \ active : id_to_name[s] = {}
    /\ open_log = [s \in Sessions |-> <<>>]
    /\ degraded = [s \in Sessions |-> FALSE]
    /\ last = NoCall

\* Whether object o is being pickled, i.e. is on the identity stack.
IsOpen(s, o) == \E k \in 1..Len(trace_stack[s]) : trace_stack[s][k] = o

\* The calls the pickler makes on session s: a well-formed or ill-formed
\* OPEN of an object that is not being pickled already, a CLOSE, a roll back.
SessionCalls(s) ==
    \/ trace_setup(s)
    \/ \E in \in CallInputs, tell \in Tells(sink[s]) :
          /\ Len(trace_stack[s]) < MaxDepth
          /\ ~MissingObj(in[1], in[2]) => ~IsOpen(s, TracedObj(in[1], in[2]))
          /\ trace(s, MsgOpen, in[1], in[2], tell)
    \/ \E tell \in Tells(sink[s]) : trace(s, MsgClose, ArgsNone, None, tell)
    \/ \E o \in Ids : roll_back(s, o)

Init == InitLogger /\ InitSessions({"p1"}, {"tellable", "untellable"})

Next ==
    \/ SessionCalls("p1")
    \/ \E arg \in {"True", "False"} : toggle(arg)

Spec == Init /\ [][Next]_vars

\* The trace manager with the toggle and the yielded log function.
InitMgr == InitLogger /\ InitSessions({}, {"tellable"})

NextMgr ==
    \/ \E file \in Targets : enter(file)
    \/ \E failing \in BOOLEAN : exit(failing)
    \/ \E arg \in {"True", "False"} : toggle(arg)
    \/ log_info(MsgOpen)

SpecMgr == InitMgr /\ [][NextMgr]_vars

\* Every form of the toggle, and a pickler without offsets.
InitLevel == InitLogger /\ InitSessions({"p1"}, {"untellable"})

NextLevel ==
    \/ \E arg \in ToggleArgs : toggle(arg)
    \/ SessionCalls("p1")

SpecLevel == InitLevel /\ [][NextLevel]_vars

\* The formatter on any record.
InitFmt == InitLogger /\ InitSessions({}, {"tellable"})

NextFmt ==
    \E record \in FmtRecords, se \in StreamEncodings, le \in LocaleEncodings :
        format(record, se, le)

SpecFmt == InitFmt /\ [][NextFmt]_vars

\* The calls of a pickler that uses the adapter as dill does, on objects
\* with identities in ids: an OPEN with the object as the last argument, a
\* CLOSE, a roll back.  Neither stack grows beyond MaxDepth.
PicklerCallsOn(s, ids) ==
    \/ trace_setup(s)
    \/ \E i \in ids, tell \in Tells(sink[s]) :
          /\ Len(trace_stack[s]) < MaxDepth
          /\ Len(size_stack[s]) < MaxDepth
          /\ ~IsOpen(s, i)
          /\ trace(s, MsgOpen, ArgsObj(i), None, tell)
    \/ \E tell \in Tells(sink[s]) : trace(s, MsgClose, ArgsNone, None, tell)
    \/ \E o \in ids : roll_back(s, o)

PicklerCalls(s) == PicklerCallsOn(s, Ids)

\* A pickler whose offset query answers on some calls and not on others.
InitFlaky == InitLogger /\ InitSessions({"p1"}, {"flaky"})

NextFlaky ==
    \/ PicklerCalls("p1")
    \/ \E arg \in {"True", "False"} : toggle(arg)

SpecFlaky == InitFlaky /\ [][NextFlaky]_vars

\* Two picklers at work at once, one with offsets and one without, each
\* with every identity in its registry.
InitTwo ==
    /\ InitLogger
    /\ InitSessions(Sessions, {"tellable", "untellable"})
    /\ \A s \in Sessions : is_dill[s] /\ id_to_name[s] = Ids
    /\ sink["p1"] = "tellable" /\ sink["p2"] = "untellable"

NextTwo ==
    \/ \E s \in Sessions : PicklerCallsOn(s, IdsTwo)
    \/ toggle("True")

SpecTwo == InitTwo /\ [][NextTwo]_vars

\* The trace manager in an application that sets the root logger's level.
NextRoot ==
    \/ \E file \in Targets : enter(file)
    \/ \E failing \in BOOLEAN : exit(failing)
    \/ \E lvl \in RootLevels : set_root_level(lvl)

SpecRoot == InitMgr /\ [][NextRoot]_vars

\* ================================================================== claims
IsTraceOn(s) == attr[s] = "list" /\ last'.op = "trace" /\ last'.s = s
LastRec == last.rec[1]

\* C1: on a tracing session whose offset query is always or never available,
\* an OPEN call reports the length of the identity stack after its push, which
\* is the number of open objects; a CLOSE call of an open object reports the
\* length before its pop, which is the depth the OPEN of that object reported;
\* and the CLOSE at depth 1 leaves the identity stack empty.
C1_DepthIsNestingPosition ==
    [][\A s \in Sessions :
        (IsTraceOn(s) /\ sink[s] # "flaky" /\ last'.raised # "TypeError") =>
            IF StartsWithHash(last'.msg)
            THEN trace_stack[s] # <<>> =>
                    /\ last'.raised = "none"
                    /\ last'.rec # None
                    /\ last'.rec[1].depth = Some(Len(trace_stack[s]))
                    /\ last'.rec[1].depth = Last(open_log[s]).depth
                    /\ trace_stack'[s] = Front(trace_stack[s])
                    /\ Len(trace_stack[s]) = 1 => trace_stack'[s] = <<>>
            ELSE /\ last'.raised = "none"
                 /\ last'.rec # None
                 /\ Len(trace_stack'[s]) = Len(trace_stack[s]) + 1
                 /\ last'.rec[1].depth = Some(Len(trace_stack'[s]))
                 /\ last'.rec[1].depth = Some(Len(open_log'[s]))
      ]_vars

\* Three objects with distinct identities were opened inside each other on a
\* pickler without offsets and the innermost has just been closed at depth 3.
C1_Witness ==
    /\ sink["p1"] = "untellable"
    /\ last.op = "trace" /\ StartsWithHash(last.msg) /\ last.raised = "none"
    /\ last.rec # None /\ LastRec.depth = Some(3)
    /\ trace_stack["p1"] = <<1, 2>>

\* C2: on every tracing session the identity stack and the offset stack have
\* the same length.
C2_StacksSameLength ==
    \A s \in Sessions :
        attr[s] = "list" => Len(trace_stack[s]) = Len(size_stack[s])

\* C3: on a tracing session whose offset query is always available, an OPEN
\* record carries no size and the CLOSE record of an open object carries the
\* offset read at the CLOSE minus the offset read at the OPEN of that object.
C3_SizeIsOwnDelta ==
    [][LET s == last'.s IN
        (IsTraceOn(s) /\ sink[s] = "tellable" /\ last'.rec # None) =>
            IF StartsWithHash(last'.msg)
            THEN trace_stack[s] # <<>> =>
                    \A tell \in Tells("tellable") :
                        trace(s, last'.msg, ArgsNone, None, tell) =>
                            last'.rec[1].size =
                                Some(tell[1] - Last(open_log[s]).off[1])
            ELSE last'.rec[1].size = None
      ]_vars

\* An object opened at offset 1 inside an object opened at offset 0 was closed.
C3_Witness ==
    /\ sink["p1"] = "tellable"
    /\ last.op = "trace" /\ StartsWithHash(last.msg) /\ last.raised = "none"
    /\ last.rec # None /\ LastRec.depth = Some(2) /\ LastRec.size = Some(0)
    /\ size_stack["p1"] = <<0>>

\* C4: roll_back on a tracing session whose identity stack is empty or has
\* another identity on top changes neither stack, logs nothing and raises
\* nothing, and leaves the session in a state where the same holds again.
C4_RollBackMismatchNoOp ==
    [][LET s == last'.s IN
        (attr[s] = "list" /\ last'.op = "roll_back") =>
            \A o \in Ids :
                (/\ trace_stack[s] = <<>> \/ Last(trace_stack[s]) # o
                 /\ roll_back(s, o)) =>
                    /\ trace_stack'[s] = trace_stack[s]
                    /\ size_stack'[s] = size_stack[s]
                    /\ id_to_name'[s] = id_to_name[s]
                    /\ last'.rec = None
                    /\ last'.raised = "none"
                    /\ trace_stack'[s] = <<>> \/ Last(trace_stack'[s]) # o
      ]_vars

\* A roll_back of object 1 has just returned while object 2, opened inside
\* object 1, is on top of the identity stack.
C4_Witness ==
    /\ last.op = "roll_back" /\ last.msg = <<1>> /\ last.raised = "none"
    /\ attr["p1"] = "list"
    /\ trace_stack["p1"] = <<1, 2>> /\ Len(size_stack["p1"]) = 2

\* C5: on a tracing session without offsets no well-formed OPEN, no CLOSE of
\* an open object and no roll_back raises, and each OPEN and CLOSE logs a
\* record with a depth.
C5_NoOffsetsNoError ==
    \A s \in Sessions :
        (sink[s] = "untellable" /\ attr[s] = "list" /\ last.s = s) =>
            /\ last.op = "roll_back" => last.raised = "none"
            /\ (/\ last.op = "trace"
                /\ last.raised # "TypeError"
                /\ ~(last.rec # None /\ LastRec.depth = Some(0))) =>
                    (last.raised = "none" /\ last.rec # None)

\* C6: a trace call on a pickler without tracing state logs the message at
\* INFO without depth, size or name, raises nothing and leaves the pickler
\* without tracing state.
C6_UntracedForwardsPlain ==
    [][\A s \in Sessions :
        (attr[s] = "absent" /\ last'.op = "trace" /\ last'.s = s) =>
            /\ last'.raised = "none"
            /\ last'.rec # None
            /\ last'.rec[1].msg = last'.msg
            /\ last'.rec[1].level = INFO
            /\ last'.rec[1].depth = None
            /\ last'.rec[1].size = None
            /\ last'.rec[1].varname = None
            /\ attr'[s] = "absent"
            /\ trace_stack'[s] = trace_stack[s]
            /\ size_stack'[s] = size_stack[s]
      ]_vars

\* An OPEN message was forwarded for a pickler that is not dill's, after a
\* trace_setup that left it alone.
C6_Witness ==
    /\ ~is_dill["p1"] /\ attr["p1"] = "absent"
    /\ last.op = "trace" /\ last.msg = MsgOpen /\ last.rec # None
    /\ getEffectiveLevel = TRACE

\* C7: an OPEN call on a tracing session without 'obj' and with no arguments
\* or a last argument that is a str raises TypeError, logs nothing and leaves
\* both stacks and the registry as they were.
C7_MissingObjectRaises ==
    [][LET s == last'.s IN
        (/\ IsTraceOn(s)
         /\ ~StartsWithHash(last'.msg)
         /\ \E args \in {ArgsNone, ArgsStr}, tell \in Tells(sink[s]) :
               trace(s, last'.msg, args, None, tell)) =>
            /\ last'.raised = "TypeError"
            /\ last'.rec = None
            /\ trace_stack'[s] = trace_stack[s]
            /\ size_stack'[s] = size_stack[s]
            /\ id_to_name'[s] = id_to_name[s]
      ]_vars

\* The usage error was raised inside two open objects.
C7_Witness ==
    /\ last.op = "trace" /\ last.raised = "TypeError" /\ last.msg = MsgOpen
    /\ Len(trace_stack["p1"]) = 2 /\ id_to_name["p1"] = Ids

\* C8: the exit of a scope that is not nested in another one, entered while
\* stderr_handler was the logger's handler, leaves the logger with the
\* effective level and the handlers it had before the entry, whatever the
\* target, however the body ended and whatever trace(True) or trace(False)
\* did to the level inside.
C8_ScopeRestoresLogger ==
    [][(last'.op = "exit" /\ Len(scopes) = 1
            /\ scopes[1].pre_handlers = <<StderrHandler>>) =>
            /\ getEffectiveLevel' = scopes[1].pre_eff
            /\ handlers' = scopes[1].pre_handlers
      ]_vars

\* A scope redirected to a file was entered at level TRACE, trace(False) was
\* called inside, and the body raised.
C8_Witness ==
    /\ last.op = "exit" /\ last.raised = "BodyError" /\ last.msg = <<"False">>
    /\ scopes = <<>>
    /\ closed = {<<"file", 1>>}
    /\ level = TRACE
    /\ handlers = <<StderrHandler>>

\* C9: a trace_setup of a dill pickler after trace(True) or trace('TRACE'),
\* with no other change of the level since, gives it two empty stacks; after
\* trace(False) or a level name above TRACE it puts the pickler in null mode;
\* and on a pickler in null mode every trace and roll_back call logs nothing,
\* raises nothing and changes nothing, whatever the level is by then.
QuietArgs == {"False", "INFO", "WARN", "WARNING", "ERROR", "CRITICAL", "FATAL"}

C9_ToggleDecidesMode ==
    [][LET s == last'.s IN
        /\ (last'.op = "trace_setup" /\ is_dill[s]) =>
            /\ toggled \in {"True", "TRACE"} =>
                  (attr'[s] = "list" /\ trace_stack'[s] = <<>> /\ size_stack'[s] = <<>>)
            /\ toggled \in QuietArgs => attr'[s] = "None"
        /\ (attr[s] = "None" /\ last'.op \in {"trace", "roll_back"}) =>
            /\ last'.rec = None
            /\ last'.raised = "none"
            /\ attr'[s] = "None"
            /\ trace_stack'[s] = trace_stack[s]
            /\ size_stack'[s] = size_stack[s]
            /\ id_to_name'[s] = id_to_name[s]
      ]_vars

\* A pickler was set up after trace('ERROR'), the level was then switched on
\* with trace(True), and an OPEN call on the pickler has returned silently.
C9_Witness ==
    /\ attr["p1"] = "None" /\ is_dill["p1"]
    /\ toggled = "True" /\ isEnabledFor(TRACE)
    /\ last.op = "trace" /\ last.msg = MsgOpen /\ last.rec = None

\* The tree characters of a prefix field: the field without the space that
\* ends it.
Glyphs(prefix) == IF prefix = <<>> THEN <<>> ELSE Front(prefix)

\* The rule of C10 for the record of depth d (0 when it has none).
C10_Rule(d, close) ==
    IF d = 0 THEN <<>>
    ELSE IF close THEN [k \in 1..d |-> IF k < d THEN Vert ELSE Corner]
    ELSE IF d = 1 THEN <<Branch>>
    ELSE [k \in 1..d |-> IF k < d - 1 THEN Vert ELSE IF k = d - 1 THEN Tee ELSE Branch]

C10_Holds ==
    LET d == DepthOf(fmt.record[1])
        close == StartsWithHash(fmt.record[1].msg)
    IN  /\ Glyphs(fmt.prefix) = C10_Rule(d, close)
        /\ Len(Glyphs(fmt.prefix)) = d
        /\ Glyphs(fmt.prefix) \in Seq({Vert, Tee, Branch, Corner})

\* C10 as claimed: the prefix of every formatted record is given by its depth
\* and its kind alone: nothing for depth 0 or no depth, the branch glyph for
\* an OPEN at depth 1, d-2 continuation glyphs and the join and branch pair
\* for an OPEN at depth d > 1, d-1 continuation glyphs and the corner glyph
\* for a CLOSE at depth d, hence d glyphs in all.
C10_PrefixByDepthAndKind == fmt.record # None => C10_Holds

\* C10 as amended: the same for every record formatted by a formatter whose
\* encoding is UTF-8.
C10_PrefixByDepthAndKindUtf8 == (fmt.record # None /\ fmt.is_utf8) => C10_Holds

\* An OPEN record of depth 3 that carries a name was formatted for UTF-8.
C10_Witness ==
    /\ fmt.record # None /\ fmt.is_utf8
    /\ fmt.record[1].depth = Some(3) /\ fmt.record[1].msg = MsgOpen
    /\ fmt.record[1].varname # None
    /\ fmt.prefix = <<Vert, Tee, Branch, " ">>

\* C11: a record of depth d >= 1 formatted for a handler whose encoding is
\* not UTF-8 or cannot be looked up gets a prefix of d characters out of
\* '|', '+' and the grave accent, then one hyphen (and the space that ends
\* every prefix); d is also the number of glyphs of the UTF-8 prefix of the
\* same depth and kind.
C11_AsciiFallback ==
    (fmt.record # None /\ fmt.encoding # Some("utf-8")
        /\ DepthOf(fmt.record[1]) >= 1) =>
        LET d == DepthOf(fmt.record[1])
            p == fmt.prefix
        IN  /\ Len(p) = d + 2
            /\ \A k \in 1..d : p[k] \in {"|", "+", Grave}
            /\ p[d + 1] = "-"
            /\ p[d + 2] = " "
            /\ \A k \in 1..Len(p) : p[k] \notin {Vert, Tee, Branch, Corner}
            /\ Len(Glyphs(PrefixField(fmt.record[1], TRUE))) = d

\* An OPEN record of depth 3 was formatted for a stream whose encoding name
\* no codec answers to.
C11_Witness ==
    /\ fmt.record # None /\ fmt.encoding = None
    /\ fmt.record[1].depth = Some(3) /\ fmt.record[1].msg = MsgOpen
    /\ fmt.prefix = <<"|", "|", "+", "-", " ">>

\* C12: on a tracing session, with or without offsets, an OPEN call that
\* brings the identity stack to length 3 for an object whose identity is in
\* the registry logs a record with the name of that object and takes the
\* identity out of the registry; every other trace call logs no name and
\* leaves the registry as it was.
C12_NameAtDepthThree ==
    [][LET s == last'.s IN
        IsTraceOn(s) =>
            IF /\ ~StartsWithHash(last'.msg) /\ last'.raised = "none"
               /\ Len(trace_stack'[s]) = VarDepth
               /\ Last(trace_stack'[s]) \in id_to_name[s]
            THEN /\ last'.rec # None
                 /\ last'.rec[1].varname = Some(VarName(Last(trace_stack'[s])))
                 /\ id_to_name'[s] = id_to_name[s] \ {Last(trace_stack'[s])}
            ELSE /\ last'.rec # None => last'.rec[1].varname = None
                 /\ id_to_name'[s] = id_to_name[s]
      ]_vars

\* C13: a record with a depth that a trace call on a tracing session hands to
\* the logger has the level TRACE, which lies strictly between DEBUG and
\* INFO; so while the logger's level is INFO or above such a record is not
\* emitted.
C13_TraceSeverity ==
    /\ DEBUG < TRACE /\ TRACE < INFO
    /\ (last.op = "trace" /\ last.rec # None /\ LastRec.depth # None) =>
          /\ LastRec.level = TRACE
          /\ getEffectiveLevel >= INFO => ~LastRec.emitted

\* C14: the exit of a redirecting scope, whether its body finished or raised,
\* detaches the scope's handler from the logger; it closes the file when the
\* manager opened it from a path, and closes nothing when the caller supplied
\* the stream, so that no handler of a caller's stream is ever closed.
C14_ClosesOnlyOwnFile ==
    [][(last'.op = "exit" /\ Last(scopes).redirect) =>
            LET self == Last(scopes) IN
                /\ ~InList(self.handler, handlers')
                /\ IF self.file = "path"
                   THEN self.handler \in closed'
                   ELSE closed' = closed
                /\ \A h \in closed' : h[1] # "stream"
      ]_vars

\* The body of a scope redirected to a path raised, inside a scope that is
\* redirected to a stream of the caller: the file is closed, the stream is not.
C14_Witness ==
    /\ last.op = "exit" /\ last.raised = "BodyError"
    /\ Len(scopes) = 1 /\ scopes[1].file = "stream"
    /\ closed = {<<"file", 2>>}
    /\ ~InList(<<"file", 2>>, handlers)

\* The handlers attached to the logger, as a set.
HandlerSet(hs) == {hs[k] : k \in 1..Len(hs)}

\* C15: the exit of every scope, nested or not, redirecting or not, leaves
\* the logger with the set of handlers it had just before the enter of that
\* scope; so after the exit of a redirecting scope inside a redirecting scope
\* the handlers are the outer scope's handler alone, without stderr_handler.
C15_NestedExitRestoresHandlers ==
    [][last'.op = "exit" =>
            /\ HandlerSet(handlers') = HandlerSet(Last(scopes).pre_handlers)
            /\ (Len(scopes) = 2 /\ scopes[1].redirect /\ scopes[2].redirect) =>
                  handlers' = <<scopes[1].handler>>
      ]_vars

\* C16: once an offset query of a tracing session has given nothing, every
\* later well-formed OPEN and every later CLOSE of an open object of that
\* session raises nothing and logs a record without a size, also when the
\* offset query of that later call answers.
C16_DegradedStaysDegraded ==
    [][LET s == last'.s IN
        (/\ IsTraceOn(s) /\ degraded[s]
         /\ last'.raised # "TypeError"
         /\ StartsWithHash(last'.msg) => trace_stack[s] # <<>>) =>
            /\ last'.raised = "none"
            /\ last'.rec # None
            /\ last'.rec[1].size = None
      ]_vars

\* C17: a CLOSE call on a tracing session whose identity stack is empty
\* raises nothing and leaves the identity stack and the offset stack empty,
\* with or without offsets.
C17_CloseOnEmptyIsHarmless ==
    [][LET s == last'.s IN
        (IsTraceOn(s) /\ StartsWithHash(last'.msg) /\ trace_stack[s] = <<>>) =>
            /\ last'.raised = "none"
            /\ trace_stack'[s] = <<>>
            /\ size_stack'[s] = <<>>
      ]_vars

\* C18: with two picklers whose calls are interleaved in any order, a
\* trace_setup, trace or roll_back call on one pickler leaves the identity
\* stack, the offset stack, the registry and the mode of the other as they
\* were, and the depth an OPEN or a CLOSE reports is the length of the
\* identity stack of its own pickler.
C18_SessionsAreIsolated ==
    [][LET s == last'.s IN
        last'.op \in {"trace_setup", "trace", "roll_back"} =>
            /\ \A t \in Sessions \ {s} :
                  /\ trace_stack'[t] = trace_stack[t]
                  /\ size_stack'[t] = size_stack[t]
                  /\ id_to_name'[t] = id_to_name[t]
                  /\ attr'[t] = attr[t]
            /\ (last'.op = "trace" /\ last'.rec # None /\ attr[s] = "list") =>
                  last'.rec[1].depth =
                      Some(IF StartsWithHash(last'.msg) THEN Len(trace_stack[s])
                           ELSE Len(trace_stack[s]) + 1)
      ]_vars

\* The second pickler has just opened its first object, which the first
\* pickler has open as the second of its two.
C18_Witness ==
    /\ last.op = "trace" /\ last.s = "p2" /\ last.msg = MsgOpen
    /\ last.rec # None /\ LastRec.depth = Some(1)
    /\ trace_stack["p1"] = <<1, 2>> /\ size_stack["p1"] = <<0, 1>>
    /\ trace_stack["p2"] = <<2>> /\ size_stack["p2"] = <<>>

\* C19: the exit of a scope leaves the logger's own level as it was just
\* before the enter of that scope, NOTSET included; so whatever level the
\* root logger is given afterwards, the dill logger's effective level is what
\* it would be with the own level of before the scope.
C19_ExitRestoresOwnLevel ==
    [][last'.op = "exit" =>
            /\ level' = Last(scopes).pre_level
            /\ \A lvl \in RootLevels :
                  EffectiveLevel(level', lvl) =
                      EffectiveLevel(Last(scopes).pre_level, lvl)
      ]_vars

\* C20: an enter that fails because the path cannot be opened leaves the
\* logger's level and its handlers, stderr_handler among them, as they were,
\* and enters no scope.
C20_FailedEnterChangesNothing ==
    [][(last'.op = "enter" /\ last'.raised = "OSError") =>
            /\ level' = level
            /\ getEffectiveLevel' = getEffectiveLevel
            /\ handlers' = handlers
            /\ InList(StderrHandler, handlers) => InList(StderrHandler, handlers')
            /\ scopes' = scopes
            /\ closed' = closed
      ]_vars

\* The enter of a scope for a path that cannot be opened has just failed,
\* outside of every scope, after trace(False).
C20_Witness ==
    /\ last.op = "enter" /\ last.raised = "OSError"
    /\ scopes = <<>>
    /\ toggled = "False" /\ level = WARNING
    /\ handlers = <<StderrHandler>>

====
